---- MODULE Spec2Model ----
(***************************************************************************)
(* awscreds: background refresh of AWS credentials.                        *)
(*   Swapper   (NewSwapper, refresh, Run, Attach): builds new credentials  *)
(*             with a factory, probes them with Get and stores them in an  *)
(*             atomic.Value that a signing option installed by Attach      *)
(*             reads each time a signer is built.                          *)
(*   Refresher (NewRefresher, Run): calls Get on one Credentials handle.   *)
(* A program uses one of the two components (variant).  Time is abstract:  *)
(* the channel of time.After becomes ready at some step after the select   *)
(* was entered (the period is positive), the context is cancelled at some  *)
(* step by the environment.                                                *)
(***************************************************************************)
EXTENDS Integers, Sequences, FiniteSets, TLC

\* ticks one Run takes at most, and caller-supplied signer options per Attach
MaxTicks == 2
MaxOpts == 1

\* messages the diagnostics sink can hold; never reached by refresh failures
MaxLogs == MaxTicks + 1

VARIABLES
    variant,    \* "Swapper" or "Refresher": the component the program uses
    pc,         \* position of the code of NewSwapper / Swapper.Run
    newcreds,   \* Swapper.newcreds: "nil", "func", or "unset" before NewSwapper
    ret,        \* what NewSwapper returned: [s, err]
    cache,      \* Swapper.cache: the interface value Load returns
    creds,      \* refresh's local creds
    calls,      \* invocations of the factory so far
    probes,     \* invocations of creds.Get by refresh so far
    before,     \* the cell's content when the running refresh was entered
    inflight,   \* calls of refresh that were entered and have not returned
    hist,       \* the refresh calls that returned: [res, creds], in order
    logs,       \* what conf.logger received, in order
    ctxDone,    \* the context passed to Run is cancelled
    cancelPc,   \* where Run was when the context was cancelled, "-" before
    timer,      \* the channel of time.After in the current select is ready
    sign,       \* per client: its Handlers.Sign entry named v4.SignRequestHandler
    attachRet,  \* per client: what the last Attach on it returned
    signed,     \* per client: the last signer its Sign handler built
    last,       \* the operation that took the last step
    rpc,        \* position of the code of NewRefresher / Refresher.Run
    handle,     \* Refresher.creds: "nil", "creds", or "unset" before NewRefresher
    rret,       \* what NewRefresher returned: [r, err]
    gets,       \* invocations of creds.Get by the Refresher so far
    getres      \* the errors those calls of Get returned, in order

vars == <<variant, pc, newcreds, ret, cache, creds, calls, probes, before, inflight,
          hist, logs, ctxDone, cancelPc, timer, sign, attachRet, signed, last,
          rpc, handle, rret, gets, getres>>

swapperVars == <<pc, newcreds, ret, cache, creds, calls, probes, before, inflight, hist>>
clientVars == <<sign, attachRet, signed>>
refresherVars == <<rpc, handle, rret, gets, getres>>

----------------------------------------------------------------------------
(* Values *)

\* *credentials.Credentials pointers: nil, the one a client was configured
\* with, one set by a caller-supplied signer option, the n-th the factory made.
Nil == [src |-> "nil", n |-> 0]
ClientCreds == [src |-> "client", n |-> 0]
UserCreds == [src |-> "opt", n |-> 0]
FactoryCreds(n) == [src |-> "factory", n |-> n]

\* interface values of the atomic.Value: nothing stored yet (Load returns the
\* nil interface), or a *credentials.Credentials.
Empty == [type |-> "none", ptr |-> Nil]
CredsValue(p) == [type |-> "*credentials.Credentials", ptr |-> p]

NoErr == "nil"
ErrNilFactory == "newcreds cannot be nil"
ErrCreate == "failed to create new credentials"
ErrRetrieve == "failed to retrieve credentials value"
ErrNilCreds == "creds cannot be nil"
RefreshMsg == "failed to refresh aws credentials"
SwapMsg == "failed to swap aws credentials"

Clients == {"a", "b", "bare"}

\* the clients whose Handlers.Sign list holds the handler named v4.SignRequestHandler
HasSignHandler(c) == c # "bare"

\* caller-supplied signer options: one that sets the signer's Credentials
UserOpts == {"SetCredentials"}
HookOpt == "cacheHook"

RECURSIVE SeqsUpTo(_, _)
SeqsUpTo(S, n) ==
    IF n = 0 THEN {<<>>}
    ELSE LET shorter == SeqsUpTo(S, n - 1)
         IN shorter \cup {Append(q, x) : q \in {r \in shorter : Len(r) = n - 1}, x \in S}

OptLists == SeqsUpTo(UserOpts, MaxOpts)

Op(name, c) == [op |-> name, c |-> c]

----------------------------------------------------------------------------
(* Initial state: nothing constructed, the SDK's own sign handlers in place *)

Init ==
    /\ variant \in {"Swapper", "Refresher"}
    /\ pc = "init"
    /\ newcreds = "unset"
    /\ ret = [s |-> "none", err |-> NoErr]
    /\ cache = Empty
    /\ creds = Nil
    /\ calls = 0
    /\ probes = 0
    /\ before = Empty
    /\ inflight = 0
    /\ hist = <<>>
    /\ logs = <<>>
    /\ ctxDone = FALSE
    /\ cancelPc = "-"
    /\ timer = FALSE
    /\ sign = [c \in Clients |-> [named |-> HasSignHandler(c), opts |-> <<>>]]
    /\ attachRet = [c \in Clients |-> "none"]
    /\ signed = [c \in Clients |-> [creds |-> Nil, hooked |-> FALSE, at |-> 0]]
    /\ last = Op("none", "-")
    /\ rpc = "init"
    /\ handle = "unset"
    /\ rret = [r |-> "none", err |-> NoErr]
    /\ gets = 0
    /\ getres = <<>>

----------------------------------------------------------------------------
(* Swapper: NewSwapper and refresh *)

\* a NewSwapper that returns &s and leaves the first refresh to Run
NewSwapperSkipsRefresh(f) ==
    /\ variant = "Swapper"
    /\ pc = "init"
    /\ newcreds' = f
    /\ IF f = "nil"
       THEN /\ pc' = "failed"
            /\ ret' = [s |-> "nil", err |-> ErrNilFactory]
       ELSE /\ pc' = "ready"
            /\ ret' = [s |-> "swapper", err |-> NoErr]
    /\ inflight' = inflight
    /\ before' = cache
    /\ last' = Op("NewSwapper", f)
    /\ UNCHANGED <<variant, cache, creds, calls, probes, hist, logs, ctxDone, cancelPc, timer>>
    /\ UNCHANGED clientVars
    /\ UNCHANGED refresherVars

\* NewSwapper without its check of newcreds
NewSwapperNoNilCheck(f) ==
    /\ variant = "Swapper"
    /\ pc = "init"
    /\ newcreds' = f
    /\ pc' = "new_factory"
    /\ ret' = ret
    /\ inflight' = inflight + 1
    /\ before' = cache
    /\ last' = Op("NewSwapper", f)
    /\ UNCHANGED <<variant, cache, creds, calls, probes, hist, logs, ctxDone, cancelPc, timer>>
    /\ UNCHANGED clientVars
    /\ UNCHANGED refresherVars

\* NewSwapper up to its call of s.refresh(); f is the newcreds argument.
NewSwapper(f) ==
    /\ variant = "Swapper"
    /\ pc = "init"
    /\ newcreds' = f
    /\ IF f = "nil"
       THEN /\ pc' = "failed"
            /\ ret' = [s |-> "nil", err |-> ErrNilFactory]
       ELSE /\ pc' = "new_factory"
            /\ ret' = ret
    /\ inflight' = IF f = "nil" THEN inflight ELSE inflight + 1
    /\ before' = cache
    /\ last' = Op("NewSwapper", f)
    /\ UNCHANGED <<variant, cache, creds, calls, probes, hist, logs, ctxDone, cancelPc, timer>>
    /\ UNCHANGED clientVars
    /\ UNCHANGED refresherVars

\* NewSwapper returning &s, nil whatever s.refresh() returned
NewSwapperReturnIgnoresErr(err) ==
    /\ pc' = "ready"
    /\ ret' = [s |-> "swapper", err |-> NoErr]
    /\ last' = Op("NewSwapper returned", err)
    /\ UNCHANGED <<logs, timer>>

\* NewSwapper after s.refresh() returned err.
NewSwapperReturn(err) ==
    /\ pc' = IF err = NoErr THEN "ready" ELSE "failed"
    /\ ret' = IF err = NoErr THEN [s |-> "swapper", err |-> NoErr]
                             ELSE [s |-> "nil", err |-> err]
    /\ last' = Op("NewSwapper returned", err)
    /\ UNCHANGED <<logs, timer>>

\* the tick case logging whatever s.refresh() returned
RunAfterRefreshLogsAlways(err) ==
    /\ logs' = Append(logs, RefreshMsg)
    /\ pc' = "select"
    /\ timer' = FALSE
    /\ last' = Op("tick returned", err)
    /\ UNCHANGED ret

\* a Run that logs the error of s.refresh() and returns
RunAfterRefreshStopsOnError(err) ==
    /\ logs' = IF err # NoErr THEN Append(logs, RefreshMsg) ELSE logs
    /\ pc' = IF err # NoErr THEN "returned" ELSE "select"
    /\ timer' = FALSE
    /\ last' = Op("tick returned", err)
    /\ UNCHANGED ret

\* The tick case of Run after s.refresh() returned err; the loop then enters
\* the select again, with a new time.After channel.
RunAfterRefresh(err) ==
    /\ logs' = IF err # NoErr THEN Append(logs, RefreshMsg) ELSE logs
    /\ pc' = "select"
    /\ timer' = FALSE
    /\ last' = Op("tick returned", err)
    /\ UNCHANGED ret

\* refresh returns err to whoever called it.
RefreshReturn(err) ==
    /\ inflight' = inflight - 1
    /\ IF pc \in {"new_factory", "new_probe"}
       THEN NewSwapperReturn(err)
       ELSE RunAfterRefresh(err)

\* refresh storing what the factory returned before Get was called on it
RefreshFactoryStoresUnprobed(ok) ==
    /\ pc \in {"new_factory", "run_factory"}
    /\ calls' = calls + 1
    /\ IF ok
       THEN /\ creds' = FactoryCreds(calls + 1)
            /\ cache' = CredsValue(FactoryCreds(calls + 1))
            /\ pc' = IF pc = "new_factory" THEN "new_probe" ELSE "run_probe"
            /\ last' = Op("newcreds returned", NoErr)
            /\ UNCHANGED <<ret, logs, timer, hist, inflight>>
       ELSE /\ creds' = Nil
            /\ cache' = cache
            /\ hist' = Append(hist, [res |-> ErrCreate, creds |-> Nil])
            /\ RefreshReturn(ErrCreate)
    /\ UNCHANGED <<variant, newcreds, probes, before, ctxDone, cancelPc>>
    /\ UNCHANGED clientVars
    /\ UNCHANGED refresherVars

\* refresh: creds, err := s.newcreds().  The factory returns an error, or new
\* credentials (a non-nil pointer never returned before).
RefreshFactory(ok) ==
    /\ pc \in {"new_factory", "run_factory"}
    /\ calls' = calls + 1
    /\ IF ok
       THEN /\ creds' = FactoryCreds(calls + 1)
            /\ pc' = IF pc = "new_factory" THEN "new_probe" ELSE "run_probe"
            /\ last' = Op("newcreds returned", NoErr)
            /\ UNCHANGED <<ret, logs, timer, hist, inflight>>
       ELSE /\ creds' = Nil
            /\ hist' = Append(hist, [res |-> ErrCreate, creds |-> Nil])
            /\ RefreshReturn(ErrCreate)
    /\ UNCHANGED <<variant, newcreds, cache, probes, before, ctxDone, cancelPc>>
    /\ UNCHANGED clientVars
    /\ UNCHANGED refresherVars

\* a refresh that puts the first credentials back when Get fails
RefreshProbeFallsBack(ok) ==
    /\ pc \in {"new_probe", "run_probe"}
    /\ probes' = probes + 1
    /\ IF ok
       THEN /\ cache' = CredsValue(creds)
            /\ hist' = Append(hist, [res |-> NoErr, creds |-> creds])
            /\ RefreshReturn(NoErr)
       ELSE /\ cache' = IF hist # <<>> /\ hist[1].res = NoErr
                        THEN CredsValue(hist[1].creds) ELSE cache
            /\ hist' = Append(hist, [res |-> ErrRetrieve, creds |-> creds])
            /\ RefreshReturn(ErrRetrieve)
    /\ UNCHANGED <<variant, newcreds, creds, calls, before, ctxDone, cancelPc>>
    /\ UNCHANGED clientVars
    /\ UNCHANGED refresherVars

\* refresh storing the new credentials before it looks at Get's error
RefreshProbeStoresFirst(ok) ==
    /\ pc \in {"new_probe", "run_probe"}
    /\ probes' = probes + 1
    /\ cache' = CredsValue(creds)
    /\ IF ok
       THEN /\ hist' = Append(hist, [res |-> NoErr, creds |-> creds])
            /\ RefreshReturn(NoErr)
       ELSE /\ hist' = Append(hist, [res |-> ErrRetrieve, creds |-> creds])
            /\ RefreshReturn(ErrRetrieve)
    /\ UNCHANGED <<variant, newcreds, creds, calls, before, ctxDone, cancelPc>>
    /\ UNCHANGED clientVars
    /\ UNCHANGED refresherVars

\* refresh: creds.Get(), then s.cache.Store(creds) if it returned no error.
RefreshProbe(ok) ==
    /\ pc \in {"new_probe", "run_probe"}
    /\ probes' = probes + 1
    /\ IF ok
       THEN /\ cache' = CredsValue(creds)
            /\ hist' = Append(hist, [res |-> NoErr, creds |-> creds])
            /\ RefreshReturn(NoErr)
       ELSE /\ cache' = cache
            /\ hist' = Append(hist, [res |-> ErrRetrieve, creds |-> creds])
            /\ RefreshReturn(ErrRetrieve)
    /\ UNCHANGED <<variant, newcreds, creds, calls, before, ctxDone, cancelPc>>
    /\ UNCHANGED clientVars
    /\ UNCHANGED refresherVars

----------------------------------------------------------------------------
(* Swapper.Run *)

\* the caller calls s.Run(ctx): the loop enters its select
RunCall ==
    /\ pc = "ready"
    /\ pc' = "select"
    /\ timer' = FALSE
    /\ last' = Op("Run", "-")
    /\ UNCHANGED <<variant, newcreds, ret, cache, creds, calls, probes, before, hist, inflight,
                   logs, ctxDone, cancelPc>>
    /\ UNCHANGED clientVars
    /\ UNCHANGED refresherVars

\* a cancellation that also ends a refresh in progress
SelectDoneInterrupts ==
    /\ pc \in {"select", "run_factory", "run_probe"}
    /\ ctxDone
    /\ pc' = "returned"
    /\ inflight' = 0
    /\ last' = Op("Run returned", "-")
    /\ UNCHANGED <<variant, newcreds, ret, cache, creds, calls, probes, before, hist,
                   logs, ctxDone, cancelPc, timer>>
    /\ UNCHANGED clientVars
    /\ UNCHANGED refresherVars

\* case <-ctx.Done(): return
SelectDone ==
    /\ pc = "select"
    /\ ctxDone
    /\ pc' = "returned"
    /\ last' = Op("Run returned", "-")
    /\ UNCHANGED <<variant, newcreds, ret, cache, creds, calls, probes, before, hist, inflight,
                   logs, ctxDone, cancelPc, timer>>
    /\ UNCHANGED clientVars
    /\ UNCHANGED refresherVars

\* a tick case that is ready whether or not the period has elapsed
SelectTickAlwaysReady ==
    /\ pc = "select"
    /\ calls < MaxTicks + 1
    /\ pc' = "run_factory"
    /\ inflight' = inflight + 1
    /\ before' = cache
    /\ last' = Op("tick", "-")
    /\ UNCHANGED <<variant, newcreds, ret, cache, creds, calls, probes, hist,
                   logs, ctxDone, cancelPc, timer>>
    /\ UNCHANGED clientVars
    /\ UNCHANGED refresherVars

\* a tick case that starts s.refresh() without waiting for the one before it
SelectTickSpawnsRefresh ==
    /\ pc \in {"select", "run_factory", "run_probe"}
    /\ timer
    /\ calls < MaxTicks + 1
    /\ pc' = "run_factory"
    /\ inflight' = inflight + 1
    /\ before' = cache
    /\ last' = Op("tick", "-")
    /\ UNCHANGED <<variant, newcreds, ret, cache, creds, calls, probes, hist,
                   logs, ctxDone, cancelPc, timer>>
    /\ UNCHANGED clientVars
    /\ UNCHANGED refresherVars

\* case <-time.After(s.conf.period): s.refresh() is entered.  A select with
\* several ready cases takes any one of them.
SelectTick ==
    /\ pc = "select"
    /\ timer
    /\ calls < MaxTicks + 1
    /\ pc' = "run_factory"
    /\ inflight' = inflight + 1
    /\ before' = cache
    /\ last' = Op("tick", "-")
    /\ UNCHANGED <<variant, newcreds, ret, cache, creds, calls, probes, hist,
                   logs, ctxDone, cancelPc, timer>>
    /\ UNCHANGED clientVars
    /\ UNCHANGED refresherVars

----------------------------------------------------------------------------
(* Environment: the period elapses while Run waits in its select; the context
   passed to Run is cancelled, at the earliest right after the call (a context
   cancelled before the call behaves the same) *)

TimerFire ==
    /\ pc = "select" \/ rpc = "select"
    /\ ~timer
    /\ timer' = TRUE
    /\ last' = Op("timer", "-")
    /\ UNCHANGED <<variant, logs, ctxDone, cancelPc>>
    /\ UNCHANGED swapperVars
    /\ UNCHANGED clientVars
    /\ UNCHANGED refresherVars

Cancel ==
    /\ pc \in {"select", "run_factory", "run_probe"} \/ rpc \in {"select", "run_get"}
    /\ ~ctxDone
    /\ ctxDone' = TRUE
    /\ cancelPc' = IF variant = "Swapper" THEN pc ELSE rpc
    /\ last' = Op("cancel", "-")
    /\ UNCHANGED <<variant, logs, timer>>
    /\ UNCHANGED swapperVars
    /\ UNCHANGED clientVars
    /\ UNCHANGED refresherVars

----------------------------------------------------------------------------
(* Swapper.Attach and the signing of a request *)

\* a swap that adds the handler when none has that name
SwapNamedOrAdd(h, n) == [swapped |-> TRUE, h |-> n]

\* HandlerList.SwapNamed: the handler of that name is replaced, if there is one
SwapNamed(h, n) ==
    IF h.named THEN [swapped |-> TRUE, h |-> n] ELSE [swapped |-> FALSE, h |-> h]

\* an Attach that puts its option in front of the caller's
AttachPrepends(c, opts) ==
    /\ ret.s = "swapper"
    /\ LET r == SwapNamed(sign[c], [named |-> TRUE, opts |-> <<HookOpt>> \o opts])
       IN /\ sign' = [sign EXCEPT ![c] = r.h]
          /\ attachRet' = [attachRet EXCEPT ![c] = IF r.swapped THEN "true" ELSE "false"]
    /\ last' = Op("Attach", c)
    /\ UNCHANGED <<variant, logs, ctxDone, cancelPc, timer, signed>>
    /\ UNCHANGED swapperVars
    /\ UNCHANGED refresherVars

\* s.Attach(c, opts...): the sign handler of c is swapped for one built from
\* append(opts, hook); the result of SwapNamed is what Attach returns
Attach(c, opts) ==
    /\ ret.s = "swapper"
    /\ LET r == SwapNamed(sign[c], [named |-> TRUE, opts |-> Append(opts, HookOpt)])
       IN /\ sign' = [sign EXCEPT ![c] = r.h]
          /\ attachRet' = [attachRet EXCEPT ![c] = IF r.swapped THEN "true" ELSE "false"]
    /\ last' = Op("Attach", c)
    /\ UNCHANGED <<variant, logs, ctxDone, cancelPc, timer, signed>>
    /\ UNCHANGED swapperVars
    /\ UNCHANGED refresherVars

\* the option leaving the signer alone when it finds credentials in the cell
HookSkipsSwap(signer, v, lg) ==
    LET ok == v.type = "*credentials.Credentials"
        cr == IF ok THEN v.ptr ELSE Nil
    IN IF cr # Nil /\ ok
       THEN [signer |-> signer, logs |-> lg]
       ELSE [signer |-> signer, logs |-> Append(lg, SwapMsg)]

\* the option assigning whatever the type assertion gave, nil included
HookAssignsNil(signer, v, lg) ==
    LET ok == v.type = "*credentials.Credentials"
        cr == IF ok THEN v.ptr ELSE Nil
    IN IF cr # Nil /\ ok
       THEN [signer |-> [signer EXCEPT !.Credentials = cr], logs |-> lg]
       ELSE [signer |-> [signer EXCEPT !.Credentials = cr], logs |-> Append(lg, SwapMsg)]

\* the option Attach appends: v is what s.cache.Load() returned
Hook(signer, v, lg) ==
    LET ok == v.type = "*credentials.Credentials"
        cr == IF ok THEN v.ptr ELSE Nil
    IN IF cr # Nil /\ ok
       THEN [signer |-> [signer EXCEPT !.Credentials = cr], logs |-> lg]
       ELSE [signer |-> signer, logs |-> Append(lg, SwapMsg)]

ApplyOpt(o, st) ==
    IF o = HookOpt
    THEN Hook(st.signer, cache, st.logs)
    ELSE [signer |-> [st.signer EXCEPT !.Credentials = UserCreds], logs |-> st.logs]

\* the options applied last to first
RECURSIVE ApplyOptsReversed(_, _)
ApplyOptsReversed(opts, st) ==
    IF opts = <<>> THEN st
    ELSE ApplyOptsReversed(SubSeq(opts, 1, Len(opts) - 1), ApplyOpt(opts[Len(opts)], st))

RECURSIVE ApplyOpts(_, _)
ApplyOpts(opts, st) ==
    IF opts = <<>> THEN st ELSE ApplyOpts(Tail(opts), ApplyOpt(Head(opts), st))

\* successful refreshes so far, and the credentials the last of them stored
Published == SelectSeq(hist, LAMBDA h : h.res = NoErr)
Pubs == Len(Published)
LastPublished == IF Pubs = 0 THEN Nil ELSE Published[Pubs].creds

\* the handler of client c holds the option Attach appends
Hooked(c) == \E i \in 1..Len(sign[c].opts) : sign[c].opts[i] = HookOpt
\* a sign handler that shares a lock with refresh: it waits while one runs
SignWaitsForRefresh(c) ==
    /\ Hooked(c)
    /\ inflight = 0
    /\ Len(logs) < MaxLogs
    /\ LET st == ApplyOpts(sign[c].opts,
                           [signer |-> [Credentials |-> ClientCreds], logs |-> logs])
       IN /\ signed' = [signed EXCEPT ![c] =
                            [creds |-> st.signer.Credentials,
                             hooked |-> Hooked(c),
                             at |-> Pubs]]
          /\ logs' = st.logs
    /\ last' = Op("Sign", c)
    /\ UNCHANGED <<variant, ctxDone, cancelPc, timer, sign, attachRet>>
    /\ UNCHANGED swapperVars
    /\ UNCHANGED refresherVars

\* a request of client c reaches the sign handler Attach installed: a signer
\* is built with the client's credentials and the options are applied in order
Sign(c) ==
    /\ Hooked(c)
    /\ Len(logs) < MaxLogs
    /\ LET st == ApplyOpts(sign[c].opts,
                           [signer |-> [Credentials |-> ClientCreds], logs |-> logs])
       IN /\ signed' = [signed EXCEPT ![c] =
                            [creds |-> st.signer.Credentials,
                             hooked |-> Hooked(c),
                             at |-> Pubs]]
          /\ logs' = st.logs
    /\ last' = Op("Sign", c)
    /\ UNCHANGED <<variant, ctxDone, cancelPc, timer, sign, attachRet>>
    /\ UNCHANGED swapperVars
    /\ UNCHANGED refresherVars

----------------------------------------------------------------------------
(* Refresher *)
\* NewRefresher without its check of creds
NewRefresherNoNilCheck(h) ==
    /\ variant = "Refresher"
    /\ rpc = "init"
    /\ handle' = h
    /\ rpc' = "new_get"
    /\ rret' = rret
    /\ last' = Op("NewRefresher", h)
    /\ UNCHANGED <<variant, logs, ctxDone, cancelPc, timer, gets, getres>>
    /\ UNCHANGED swapperVars
    /\ UNCHANGED clientVars

\* NewRefresher up to its creds.Get(); h is the creds argument
NewRefresher(h) ==
    /\ variant = "Refresher"
    /\ rpc = "init"
    /\ handle' = h
    /\ IF h = "nil"
       THEN /\ rpc' = "failed"
            /\ rret' = [r |-> "nil", err |-> ErrNilCreds]
       ELSE /\ rpc' = "new_get"
            /\ rret' = rret
    /\ last' = Op("NewRefresher", h)
    /\ UNCHANGED <<variant, logs, ctxDone, cancelPc, timer, gets, getres>>
    /\ UNCHANGED swapperVars
    /\ UNCHANGED clientVars

\* a Run that gives up at the first Get that fails
RefresherGetFatal(ok) ==
    /\ rpc \in {"new_get", "run_get"}
    /\ gets' = gets + 1
    /\ getres' = Append(getres, IF ok THEN NoErr ELSE ErrRetrieve)
    /\ IF rpc = "new_get"
       THEN /\ rpc' = IF ok THEN "ready" ELSE "failed"
            /\ rret' = IF ok THEN [r |-> "refresher", err |-> NoErr]
                             ELSE [r |-> "nil", err |-> ErrRetrieve]
            /\ last' = Op("NewRefresher returned", IF ok THEN NoErr ELSE ErrRetrieve)
            /\ UNCHANGED <<logs, timer>>
       ELSE /\ logs' = IF ok THEN logs ELSE Append(logs, RefreshMsg)
            /\ rpc' = IF ok THEN "select" ELSE "returned"
            /\ timer' = FALSE
            /\ last' = Op("tick returned", IF ok THEN NoErr ELSE ErrRetrieve)
            /\ UNCHANGED rret
    /\ UNCHANGED <<variant, ctxDone, cancelPc, handle>>
    /\ UNCHANGED swapperVars
    /\ UNCHANGED clientVars

\* creds.Get() returns, in NewRefresher or in a tick of Run
RefresherGet(ok) ==
    /\ rpc \in {"new_get", "run_get"}
    /\ gets' = gets + 1
    /\ getres' = Append(getres, IF ok THEN NoErr ELSE ErrRetrieve)
    /\ IF rpc = "new_get"
       THEN /\ rpc' = IF ok THEN "ready" ELSE "failed"
            /\ rret' = IF ok THEN [r |-> "refresher", err |-> NoErr]
                             ELSE [r |-> "nil", err |-> ErrRetrieve]
            /\ last' = Op("NewRefresher returned", IF ok THEN NoErr ELSE ErrRetrieve)
            /\ UNCHANGED <<logs, timer>>
       ELSE /\ logs' = IF ok THEN logs ELSE Append(logs, RefreshMsg)
            /\ rpc' = "select"
            /\ timer' = FALSE
            /\ last' = Op("tick returned", IF ok THEN NoErr ELSE ErrRetrieve)
            /\ UNCHANGED rret
    /\ UNCHANGED <<variant, ctxDone, cancelPc, handle>>
    /\ UNCHANGED swapperVars
    /\ UNCHANGED clientVars

RefresherRunCall ==
    /\ rpc = "ready"
    /\ rpc' = "select"
    /\ timer' = FALSE
    /\ last' = Op("Run", "-")
    /\ UNCHANGED <<variant, logs, ctxDone, cancelPc, handle, rret, gets, getres>>
    /\ UNCHANGED swapperVars
    /\ UNCHANGED clientVars

RefresherSelectDone ==
    /\ rpc = "select"
    /\ ctxDone
    /\ rpc' = "returned"
    /\ last' = Op("Run returned", "-")
    /\ UNCHANGED <<variant, logs, ctxDone, cancelPc, timer, handle, rret, gets, getres>>
    /\ UNCHANGED swapperVars
    /\ UNCHANGED clientVars

RefresherSelectTick ==
    /\ rpc = "select"
    /\ timer
    /\ gets < MaxTicks + 1
    /\ rpc' = "run_get"
    /\ last' = Op("tick", "-")
    /\ UNCHANGED <<variant, logs, ctxDone, cancelPc, timer, handle, rret, gets, getres>>
    /\ UNCHANGED swapperVars
    /\ UNCHANGED clientVars

----------------------------------------------------------------------------

Next ==
    \/ \E f \in {"nil", "func"} : NewSwapper(f)
    \/ \E ok \in BOOLEAN : RefreshFactory(ok)
    \/ \E ok \in BOOLEAN : RefreshProbe(ok)
    \/ RunCall
    \/ SelectDone
    \/ SelectTick
    \/ TimerFire
    \/ \E c \in Clients, opts \in OptLists : Attach(c, opts)
    \/ \E c \in Clients : Sign(c)
    \/ \E h \in {"nil", "creds"} : NewRefresher(h)
    \/ \E ok \in BOOLEAN : RefresherGet(ok)
    \/ RefresherRunCall
    \/ RefresherSelectDone
    \/ RefresherSelectTick
    \/ Cancel

Spec == Init /\ [][Next]_vars

\* Spec with the progress the runtime gives: a call of the factory or of Get
\* that returns is taken to return (weak fairness), and a select that finds
\* ctx.Done() ready again and again takes that case at some point, since it
\* picks among its ready cases at random (strong fairness).
Fairness ==
    /\ WF_vars(\E ok \in BOOLEAN : RefreshFactory(ok))
    /\ WF_vars(\E ok \in BOOLEAN : RefreshProbe(ok))
    /\ WF_vars(\E ok \in BOOLEAN : RefresherGet(ok))
    /\ SF_vars(SelectDone)
    /\ SF_vars(RefresherSelectDone)

\* The construction and the two loops alone.  Attach and Sign are left out:
\* they read the cell and change only the clients' handlers, the signers and
\* the sink, none of which a loop reads.
NextLoop ==
    \/ \E f \in {"nil", "func"} : NewSwapper(f)
    \/ \E ok \in BOOLEAN : RefreshFactory(ok)
    \/ \E ok \in BOOLEAN : RefreshProbe(ok)
    \/ RunCall
    \/ SelectDone
    \/ SelectTick
    \/ TimerFire
    \/ \E h \in {"nil", "creds"} : NewRefresher(h)
    \/ \E ok \in BOOLEAN : RefresherGet(ok)
    \/ RefresherRunCall
    \/ RefresherSelectDone
    \/ RefresherSelectTick
    \/ Cancel

SpecLive == Init /\ [][NextLoop]_vars /\ Fairness

----------------------------------------------------------------------------
(* The option Attach appends, over every value the cell can hand it.  The cell
   is an atomic.Value: Load returns the nil interface while nothing is stored,
   and a *credentials.Credentials, nil or not, afterwards. *)

CellValues == {Empty, CredsValue(Nil), CredsValue(FactoryCreds(1))}

InitHook ==
    /\ variant = "Swapper"
    /\ pc = "ready"
    /\ newcreds = "func"
    /\ ret = [s |-> "swapper", err |-> NoErr]
    /\ cache \in CellValues
    /\ creds = Nil
    /\ calls = 0
    /\ probes = 0
    /\ before = Empty
    /\ inflight = 0
    /\ hist = <<>>
    /\ logs = <<>>
    /\ ctxDone = FALSE
    /\ cancelPc = "-"
    /\ timer = FALSE
    /\ sign = [c \in Clients |-> [named |-> HasSignHandler(c), opts |-> <<>>]]
    /\ attachRet = [c \in Clients |-> "none"]
    /\ signed = [c \in Clients |-> [creds |-> Nil, hooked |-> FALSE, at |-> 0]]
    /\ last = Op("none", "-")
    /\ rpc = "init"
    /\ handle = "unset"
    /\ rret = [r |-> "none", err |-> NoErr]
    /\ gets = 0
    /\ getres = <<>>

NextHook ==
    \/ \E c \in Clients, opts \in OptLists : Attach(c, opts)
    \/ \E c \in Clients : Sign(c)

SpecHook == InitHook /\ [][NextHook]_vars

----------------------------------------------------------------------------
(* Properties *)

RefreshLogs == Len(SelectSeq(logs, LAMBDA m : m = RefreshMsg))
SwapLogs == Len(SelectSeq(logs, LAMBDA m : m = SwapMsg))

\* the credentials of the refresh calls that returned an error
FailedCreds == {hist[i].creds : i \in {j \in 1..Len(hist) : hist[j].res # NoErr}} \ {Nil}

\* C1: when a refresh() called by a tick of Swapper.Run returns an error (the
\* factory failed, or Get on the new credentials failed), the cache cell holds
\* what it held when that refresh was entered, and it is still a credential.
C1_FailedTickKeepsCache ==
    (variant = "Swapper" /\ last.op = "tick returned" /\ last.c # NoErr)
        => /\ cache = before
           /\ cache # Empty
           /\ cache.ptr \notin FailedCreds

C1_Witness ==
    /\ variant = "Swapper"
    /\ last = Op("tick returned", ErrRetrieve)
    /\ Len(hist) = 3
    /\ hist[2].res = ErrCreate

\* C2: a signer built by a handler that Attach installed carries the
\* credentials stored by the most recent refresh that returned nil (that of
\* NewSwapper being the first), not older ones and none of a failed refresh.
C2_HookReadsLastPublished ==
    \A c \in Clients :
        (last = Op("Sign", c) /\ signed[c].hooked)
            => /\ signed[c].creds = LastPublished
               /\ signed[c].creds # Nil
               /\ signed[c].creds \notin FailedCreds

C2_Witness ==
    \E c \in Clients :
        /\ last = Op("Sign", c)
        /\ signed[c].hooked
        /\ Len(hist) = 3
        /\ hist[2].res = NoErr
        /\ hist[3].res = ErrRetrieve

\* C4: with a non-nil factory NewSwapper returns a Swapper and a nil error
\* exactly when the first factory call and the Get on its credentials both
\* succeeded; otherwise it returns a nil Swapper and an error.
C4_ConstructIffFirstRefreshOk ==
    (newcreds = "func" /\ pc \notin {"init", "new_factory", "new_probe"})
        => /\ (ret.s = "swapper" /\ ret.err = NoErr) <=> (hist[1].res = NoErr)
           /\ (hist[1].res # NoErr) => (ret = [s |-> "nil", err |-> hist[1].res] /\ pc = "failed")
           /\ (ret.s = "swapper") => (cache # Empty /\ probes >= 1)

C4_Witness ==
    /\ newcreds = "func"
    /\ ret = [s |-> "nil", err |-> ErrRetrieve]
    /\ calls = 1
    /\ probes = 1

\* C5: with a nil factory NewSwapper returns a nil Swapper and an error at
\* once: the factory is never called, nothing is probed or stored, and there
\* is no Swapper to run a loop on.
C5_NilFactoryFailsAtOnce ==
    (newcreds = "nil")
        => /\ ret = [s |-> "nil", err |-> ErrNilFactory]
           /\ pc = "failed"
           /\ calls = 0
           /\ probes = 0
           /\ cache = Empty
           /\ hist = <<>>
           /\ logs = <<>>

C5_Witness ==
    /\ newcreds = "nil"
    /\ pc = "failed"
    /\ last = Op("NewSwapper", "nil")

C7_AttachWithoutSignHandler ==
    [][\A c \in Clients :
          (last' = Op("Attach", c) /\ ~sign[c].named)
              => /\ attachRet'[c] = "false"
                 /\ sign' = sign
                 /\ cache' = cache
                 /\ <<pc, creds, calls, probes, hist, logs, ctxDone, timer>>'
                        = <<pc, creds, calls, probes, hist, logs, ctxDone, timer>>]_vars

C7_Witness ==
    /\ last = Op("Attach", "bare")
    /\ attachRet["bare"] = "false"
    /\ pc = "run_probe"
    /\ cache # Empty

\* C8: two clients attached to the same Swapper whose last requests were both
\* signed after the latest successful refresh carry the same credentials:
\* those that refresh stored.
C8_AttachedClientsAgree ==
    \A c, d \in Clients :
        (/\ c # d
         /\ signed[c].hooked /\ signed[d].hooked
         /\ signed[c].at = Pubs /\ signed[d].at = Pubs)
            => /\ signed[c].creds = signed[d].creds
               /\ signed[c].creds = LastPublished

C8_Witness ==
    /\ signed["a"].hooked /\ signed["b"].hooked
    /\ signed["a"].at = 2 /\ signed["b"].at = 2
    /\ Pubs = 2
    /\ Len(sign["a"].opts) # Len(sign["b"].opts)

\* the refresh calls of Run (all but the first, made by NewSwapper) that failed
FailedTicks == Cardinality({i \in 2..Len(hist) : hist[i].res # NoErr})

\* C9: the sink holds one "failed to refresh" message per failed tick of
\* Swapper.Run and none for a successful one; after a tick that failed right
\* after a refresh that succeeded, the cell holds what that refresh stored.
C9_OneLogPerFailedTick ==
    (variant = "Swapper")
        => /\ RefreshLogs = FailedTicks
           /\ SwapLogs = 0
           /\ \A i \in 2..Len(hist) :
                 (i = Len(hist) /\ hist[i - 1].res = NoErr /\ hist[i].res # NoErr)
                     => cache = CredsValue(hist[i - 1].creds)

C9_Witness ==
    /\ variant = "Swapper"
    /\ Len(hist) = 3
    /\ hist[2].res = NoErr
    /\ hist[3].res = ErrCreate
    /\ logs = <<RefreshMsg>>
    /\ last = Op("tick returned", ErrCreate)

\* C10: Refresher.Run returns only on cancellation: a tick whose Get fails
\* logs one message and goes back to the select; the Refresher fails only in
\* NewRefresher.
C10_RefresherRunEndsOnlyOnCancel ==
    (variant = "Refresher")
        => /\ (rpc = "returned") => ctxDone
           /\ (last.op = "tick returned") => rpc = "select"
           /\ (last = Op("tick returned", ErrRetrieve))
                  => (Len(logs) >= 1 /\ logs[Len(logs)] = RefreshMsg)
           /\ (rpc = "failed") => (gets <= 1 /\ rret.r = "nil")
           /\ (gets >= 1 /\ rret.r = "refresher") => Len(logs) <= gets - 1

C10_Witness ==
    /\ variant = "Refresher"
    /\ rpc = "select"
    /\ ~ctxDone
    /\ logs = <<RefreshMsg, RefreshMsg>>
    /\ last = Op("tick returned", ErrRetrieve)

\* what the options before the appended one leave in the signer of client c
BeforeHook(c) ==
    IF \E i \in 1..Len(sign[c].opts) : sign[c].opts[i] \in UserOpts
    THEN UserCreds ELSE ClientCreds

\* C6: when a handler installed by Attach builds a signer while the cell is
\* empty or holds a nil *credentials.Credentials, the sink receives exactly
\* one "failed to swap" message and the signer keeps the credentials it had.
C6_HookMissLogsAndKeepsSigner ==
    [][\A c \in Clients :
          (/\ last' = Op("Sign", c)
           /\ Hooked(c)
           /\ (cache = Empty \/ cache.ptr = Nil))
              => /\ logs' = Append(logs, SwapMsg)
                 /\ signed'[c].creds = BeforeHook(c)
                 /\ signed'[c].creds # Nil
                 /\ cache' = cache]_vars

C6_Witness ==
    /\ last = Op("Sign", "a")
    /\ signed["a"].hooked
    /\ cache = Empty
    /\ signed["a"].creds = ClientCreds
    /\ logs = <<SwapMsg>>

\* C11: NewRefresher returns a nil Refresher and an error when creds is nil,
\* without calling Get, or when its one call of Get fails; it returns a
\* Refresher and a nil error exactly when creds is non-nil and that Get
\* succeeded.
C11_NewRefresherIffHandleAndGetOk ==
    (variant = "Refresher" /\ rpc \notin {"init", "new_get"})
        => /\ (handle = "nil")
                => (rret = [r |-> "nil", err |-> ErrNilCreds] /\ gets = 0 /\ rpc = "failed")
           /\ (handle = "creds" /\ getres[1] # NoErr)
                => (rret = [r |-> "nil", err |-> ErrRetrieve] /\ gets = 1 /\ rpc = "failed")
           /\ (rret = [r |-> "refresher", err |-> NoErr])
                <=> (handle = "creds" /\ getres # <<>> /\ getres[1] = NoErr)
           /\ rret.r \in {"nil", "refresher"}

C11_Witness ==
    /\ variant = "Refresher"
    /\ handle = "creds"
    /\ getres = <<ErrRetrieve>>
    /\ rret = [r |-> "nil", err |-> ErrRetrieve]

\* the credentials on which Get returned no error in refresh
Validated == {hist[i].creds : i \in {j \in 1..Len(hist) : hist[j].res = NoErr}}

\* C12: Load on the cell returns the nil interface exactly as long as no
\* refresh has succeeded, and afterwards one *credentials.Credentials that the
\* factory returned and on which Get had succeeded before it was stored; right
\* after a refresh stored V the cell holds V, and a signer built then gets V.
C12_CellHoldsValidatedValue ==
    (variant = "Swapper")
        => /\ (cache = Empty) <=> (Pubs = 0)
           /\ (cache # Empty)
                => /\ cache.type = "*credentials.Credentials"
                   /\ cache.ptr.src = "factory"
                   /\ cache.ptr \in Validated
           /\ (last.op \in {"NewSwapper returned", "tick returned"} /\ last.c = NoErr)
                => cache = CredsValue(hist[Len(hist)].creds)
           /\ \A c \in Clients :
                 (last = Op("Sign", c) /\ signed[c].hooked) => CredsValue(signed[c].creds) = cache

C12_Witness ==
    /\ last = Op("Sign", "a")
    /\ signed["a"].hooked
    /\ Len(hist) = 3
    /\ hist[2].res = ErrRetrieve
    /\ hist[3].res = NoErr
    /\ signed["a"].creds = hist[3].creds

Refreshing == pc \in {"run_factory", "run_probe"}

\* C13: while a refresh of Run is in progress (the factory or Get has been
\* called and has not returned, however long that takes) a handler installed
\* by Attach can still build its signer, and the signer gets the credentials
\* stored before that refresh began.
C13_HookNeverWaitsOnRefresh ==
    \A c \in Clients :
        /\ (Refreshing /\ Hooked(c)) => ENABLED Sign(c)
        /\ (Refreshing /\ last = Op("Sign", c) /\ signed[c].hooked)
              => /\ CredsValue(signed[c].creds) = before
                 /\ signed[c].creds = LastPublished
                 /\ (pc = "run_probe") => signed[c].creds # creds

C13_Witness ==
    /\ pc = "run_probe"
    /\ last = Op("Sign", "b")
    /\ signed["b"].hooked
    /\ signed["b"].creds = FactoryCreds(1)
    /\ creds = FactoryCreds(2)

CancelledInRefresh == cancelPc \in {"run_factory", "run_probe", "run_get"}

C15_OneRefreshAtATime ==
    /\ [](/\ inflight \in {0, 1}
          /\ (inflight = 1) <=> (pc \in {"new_factory", "new_probe", "run_factory", "run_probe"})
          /\ (pc \in {"new_factory", "new_probe"}) => ret.s = "none"
          /\ (ret.s = "swapper" /\ pc \in {"ready", "select", "returned"}) => inflight = 0)
    /\ [][(cache' # cache)
             => /\ inflight = 1
                /\ inflight' = 0
                /\ last' \in {Op("NewSwapper returned", NoErr), Op("tick returned", NoErr)}]_vars

C15_Witness ==
    /\ inflight = 1
    /\ pc = "run_probe"
    /\ calls = 3
    /\ Len(hist) = 2
    /\ \E c \in Clients : Hooked(c)

\* a tick of Run failed before the refresh that returned last
FailedTickEarlier == \E j \in 2..(Len(hist) - 1) : hist[j].res # NoErr

\* C16: a failed tick of Swapper.Run leaves the loop in its select with a new
\* timer that can fire again; and when a tick succeeds after failed ones, the
\* cell holds that tick's credentials and a signer built next gets them.
C16_FailedTickNotSticky ==
    (variant = "Swapper")
        => /\ (last.op = "tick returned" /\ last.c # NoErr)
                => (pc = "select" /\ ~timer /\ ENABLED TimerFire)
           /\ (timer /\ pc = "select" /\ calls < MaxTicks + 1) => ENABLED SelectTick
           /\ (FailedTickEarlier /\ hist[Len(hist)].res = NoErr)
                => /\ cache = CredsValue(hist[Len(hist)].creds)
                   /\ \A c \in Clients :
                         (last = Op("Sign", c) /\ signed[c].hooked)
                             => signed[c].creds = hist[Len(hist)].creds

C16_Witness ==
    /\ Len(hist) = 3
    /\ hist[2].res = ErrCreate
    /\ hist[3].res = NoErr
    /\ last = Op("Sign", "b")
    /\ signed["b"].creds = FactoryCreds(3)
    /\ logs = <<RefreshMsg>>

C18_CellNeverEmptyAfterNewSwapper ==
    /\ [](ret.s = "swapper"
            => /\ cache # Empty
               /\ cache.type = "*credentials.Credentials"
               /\ cache.ptr # Nil
               /\ cache.ptr \in Validated)
    /\ [](SwapLogs = 0)
    /\ [](\A c \in Clients :
            /\ Hooked(c) => ret.s = "swapper"
            /\ (last = Op("Sign", c) /\ signed[c].hooked)
                 => (signed[c].creds = cache.ptr /\ signed[c].creds # BeforeHook(c)))
    /\ [][(cache # Empty) => (cache' # Empty)]_vars

C18_Witness ==
    /\ ret.s = "swapper"
    /\ last = Op("Sign", "b")
    /\ signed["b"].creds = FactoryCreds(1)
    /\ hist[Len(hist)].res = ErrRetrieve
    /\ cache = CredsValue(FactoryCreds(1))
    /\ SwapLogs = 0

\* which successful refresh stored the credentials cr: k for the k-th, 0 for
\* credentials no refresh has stored
PubIndex(cr) ==
    IF \E k \in 1..Pubs : Published[k].creds = cr
    THEN CHOOSE k \in 1..Pubs : Published[k].creds = cr
    ELSE 0

\* C19: the signer of a request signed now holds credentials stored by a
\* refresh no earlier than the one whose credentials any signer built before
\* it holds, on the same client or another; and the cell itself only moves
\* forward in the order of the successful refreshes.
C19_ReadsFollowPublicationOrder ==
    [][/\ \A c, d \in Clients :
            (last' = Op("Sign", c) /\ signed'[c].hooked /\ signed[d].hooked)
                => /\ PubIndex(signed'[c].creds) >= PubIndex(signed[d].creds)
                   /\ PubIndex(signed'[c].creds) >= 1
       /\ (PubIndex(cache.ptr))' >= PubIndex(cache.ptr)]_vars

C19_Witness ==
    /\ last = Op("Sign", "b")
    /\ signed["a"].hooked /\ signed["b"].hooked
    /\ PubIndex(signed["a"].creds) = 1
    /\ PubIndex(signed["b"].creds) = 2
    /\ signed["b"].creds = FactoryCreds(3)

====
